---- MODULE Spec2Model ----
(***************************************************************************)
(* Model of the matching engine of backend/server.py (class MatchingEngine *)
(* and the POST /api/orders handler).                                      *)
(*                                                                         *)
(* Prices and quantities are Python floats in the source; the model draws  *)
(* them from small integer ranges, on which float arithmetic is exact.     *)
(* uuid4 order ids are modelled by a counter (next_id).  The Mongo         *)
(* collections db.orders and db.trades are the variables db_orders and     *)
(* db_trades; a write to them either succeeds or raises, and no document   *)
(* is ever deleted.  submit_order is taken from await to await: the event  *)
(* loop runs other tasks wherever it is suspended.                         *)
(***************************************************************************)
EXTENDS Integers, Sequences, FiniteSets, TLC

\* ---------------------------------------------------------------- bounds
MaxOrders == 3
MaxQty == 2
MaxPrice == 2
MaxDepth == 2
MaxTasks == 2
MaxSockets == 2

\* ---------------------------------------------------------------- inputs
Symbols == {"BTC"}
OrderTypes == {"market", "limit", "ioc", "fok"}
Sides == {"buy", "sell"}
\* Python's None for an absent price; no price of the model is negative.
None == 0 - 1
\* The absent status, trade or order of a failed request.
Absent == "None"
Quantities == 0 .. MaxQty
Prices == 1 .. MaxPrice

\* class OrderSubmission: the request body of POST /api/orders
OrderSubmission ==
    [symbol : Symbols, order_type : OrderTypes, side : Sides,
     quantity : Quantities, price : Prices \cup {None}]

\* The depth query parameter of GET /api/orderbook/{symbol}: an int, which
\* the endpoint takes as it comes, negative or not.
Depths == (0 - MaxDepth) .. MaxDepth

\* The tasks that run POST /api/orders, the websockets that connect, and the
\* three lists of connections of the engine.
Tasks == 1 .. MaxTasks
Sockets == 1 .. MaxSockets
Channels == {"orderbook", "trades", "bbo"}

VARIABLES
    order_books,    \* symbol -> [bids, asks]; each a map key -> FIFO of order ids
    active_orders,  \* set of order ids (keys of self.active_orders)
    orders,         \* order id -> the fields of an Order object still referenced
    db_orders,      \* db.orders: order id -> stored document
    db_trades,      \* db.trades: sequence of stored trade documents
    next_id,        \* number of Order objects created so far
    result,         \* outcome of the last request, when a POST /api/orders
    reply,          \* response of the GET of the book served in the last step
    tasks,          \* request task -> where its submit_order stands, its locals
    lock,           \* self.lock: the task holding it, 0 when free
    conns,          \* channel -> the list self.<channel>_connections
    sock,           \* websocket -> where its endpoint stands, and its channel
    application_state, \* websocket -> CONNECTING, CONNECTED or DISCONNECTED
    delivered,      \* websocket -> number of the last trade sent to it
    produced        \* number of Trade objects created so far

\* What only the tasks and the websocket endpoints change.
avars == <<tasks, lock, conns, sock, application_state, delivered, produced>>

vars == <<order_books, active_orders, orders, db_orders, db_trades, next_id, result,
          reply, tasks, lock, conns, sock, application_state, delivered, produced>>

\* ------------------------------------------------------------ generic helpers
Min(a, b) == IF a <= b THEN a ELSE b

\* SortedDict.keys()[0]
FirstKey(d) == CHOOSE k \in DOMAIN d : \A j \in DOMAIN d : k <= j

\* d[k] = v on a dict (insert or overwrite)
DictSet(d, k, v) == [j \in DOMAIN d \cup {k} |-> IF j = k THEN v ELSE d[j]]

\* del d[k]
DictDel(d, k) == [j \in DOMAIN d \ {k} |-> d[j]]

EmptyDict == [j \in {} |-> 0]

\* deque.remove(x): drop the first occurrence of x
RECURSIVE SeqRemove(_, _)
SeqRemove(s, x) ==
    IF s = <<>> THEN <<>>
    ELSE IF Head(s) = x THEN Tail(s)
    ELSE <<Head(s)>> \o SeqRemove(Tail(s), x)

InSeq(s, x) == \E i \in 1 .. Len(s) : s[i] = x

RECURSIVE SumRemaining(_, _)
\* sum(o.remaining_quantity for o in level)
SumRemaining(os, level) ==
    IF level = <<>> THEN 0
    ELSE os[Head(level)].remaining_quantity + SumRemaining(os, Tail(level))

\* ----------------------------------------------------------------- the book
\* ensure_order_book: create the symbol's empty book on first reference
ensure_order_book(books, symbol) ==
    IF symbol \in DOMAIN books THEN books
    ELSE DictSet(books, symbol, [bids |-> EmptyDict, asks |-> EmptyDict])

\* Best bid as the outside sees it: bids are keyed by the negated price.
BestBid(book) == 0 - FirstKey(book.bids)
BestAsk(book) == FirstKey(book.asks)

\* No Trade: what a task holds while it is not inside execute_trade.
NoTrade == [symbol |-> Absent]

\* add_order_to_book
add_order_to_book(m, id) ==
    LET o == m.orders[id]
        books == ensure_order_book(m.order_books, o.symbol)
        book == books[o.symbol]
        side == IF o.side = "buy" THEN "bids" ELSE "asks"
        price == IF o.side = "buy" THEN 0 - o.price ELSE o.price
        level == IF price \in DOMAIN book[side] THEN book[side][price] ELSE <<>>
    IN  [m EXCEPT
            !.order_books =
                [books EXCEPT ![o.symbol][side] = DictSet(@, price, Append(level, id))],
            !.active_orders = @ \cup {id}]

\* remove_order_from_book without the deletion of a level left empty.
remove_order_keeps_level(m, id) ==
    LET o == m.orders[id]
        book == m.order_books[o.symbol]
        side == IF o.side = "buy" THEN "bids" ELSE "asks"
        price == IF o.side = "buy" THEN 0 - o.price ELSE o.price
        levels ==
            IF price \notin DOMAIN book[side] THEN book[side]
            ELSE DictSet(book[side], price, SeqRemove(book[side][price], id))
    IN  [m EXCEPT
            !.order_books = [@ EXCEPT ![o.symbol][side] = levels],
            !.active_orders = @ \ {id}]

\* remove_order_from_book
remove_order_from_book(m, id) ==
    LET o == m.orders[id]
        book == m.order_books[o.symbol]
        side == IF o.side = "buy" THEN "bids" ELSE "asks"
        price == IF o.side = "buy" THEN 0 - o.price ELSE o.price
        rest == SeqRemove(book[side][price], id)
        levels ==
            IF price \notin DOMAIN book[side] THEN book[side]
            ELSE IF ~InSeq(book[side][price], id) THEN book[side]  \* ValueError: pass
            ELSE IF rest = <<>> THEN DictDel(book[side], price)
            ELSE DictSet(book[side], price, rest)
    IN  [m EXCEPT
            !.order_books = [@ EXCEPT ![o.symbol][side] = levels],
            !.active_orders = @ \ {id}]

\* ------------------------------------------------------------- the journal
\* One awaited write to Mongo: it is applied (ok) or it raises, and then the
\* exception leaves submit_order, which catches none.
Raise(m) == [m EXCEPT !.pc = "error"]

\* await db.orders.insert_one(order_dict)
db_orders_insert_one(m, id, ok) ==
    IF ok THEN [m EXCEPT !.db_orders = DictSet(@, id, m.orders[id])]
    ELSE Raise(m)

\* await db.orders.update_one({"order_id": id}, {"$set": order_dict}, upsert=True)
db_orders_update_one(m, id, ok) ==
    IF ok THEN [m EXCEPT !.db_orders = DictSet(@, id, m.orders[id])]
    ELSE Raise(m)

\* await db.trades.insert_one(trade_dict)
db_trades_insert_one(m, trade, ok) ==
    IF ok THEN [m EXCEPT !.db_trades = Append(@, trade)]
    ELSE Raise(m)

\* ------------------------------------------------------------ execute_trade
\* Lines 194-201: Trade(...)
NewTrade(m, maker, taker, quantity, price) ==
    [symbol |-> m.orders[maker].symbol,
     price |-> price,
     quantity |-> quantity,
     aggressor_side |-> m.orders[taker].side,
     maker_order_id |-> maker,
     taker_order_id |-> taker]

\* Lines 204-205: a remaining quantity goes down by the traded quantity.
Decrement(o, quantity) ==
    [o EXCEPT !.remaining_quantity = @ - quantity]

update_quantities(m, maker, taker, quantity) ==
    [m EXCEPT !.orders[maker] = Decrement(@, quantity),
              !.orders[taker] = Decrement(@, quantity)]

\* Lines 208-212: the maker's status; a filled maker leaves the book.
update_maker_status(m, maker) ==
    IF m.orders[maker].remaining_quantity = 0
    THEN remove_order_from_book([m EXCEPT !.orders[maker].status = "filled"], maker)
    ELSE IF m.orders[maker].remaining_quantity < m.orders[maker].quantity
    THEN [m EXCEPT !.orders[maker].status = "partially_filled"]
    ELSE m

\* Lines 214-217: the taker's status
update_taker_status(m, taker) ==
    IF m.orders[taker].remaining_quantity = 0
    THEN [m EXCEPT !.orders[taker].status = "filled"]
    ELSE IF m.orders[taker].remaining_quantity < m.orders[taker].quantity
    THEN [m EXCEPT !.orders[taker].status = "partially_filled"]
    ELSE m

\* -------------------------------------------------------------- match_order
\* The price test with its comparisons the wrong way round.
PriceStopsInverted(o, best) ==
    /\ o.order_type = "limit"
    /\ IF o.side = "buy" THEN o.price > best ELSE o.price < best

\* Line 252 / 276: the price test of match_order
PriceStops(o, best) ==
    /\ o.order_type = "limit"
    /\ IF o.side = "buy" THEN o.price < best ELSE o.price > best

\* A maker taken from the tail of the level instead of its head.
MakerLifo(level) == level[Len(level)]

\* Lines 258 / 282: maker_order = ask_orders[0]  # FIFO
Maker(level) == Head(level)

\* The best price read from the key without undoing the negation of bids.
BestPriceRaw(o, key) == key

\* Lines 249 / 273: the best opposite price behind the first key of the side
BestPrice(o, key) == IF o.side = "buy" THEN key ELSE 0 - key

\* Lines 246-247 / 270-272: the side a taker matches against
Opposite(m, taker) ==
    IF m.orders[taker].side = "buy"
    THEN m.order_books[m.orders[taker].symbol].asks
    ELSE m.order_books[m.orders[taker].symbol].bids

\* Lines 255 / 279: the deque of a level, empty once the level is deleted
LevelAt(m, taker, key) ==
    IF key \in DOMAIN Opposite(m, taker) THEN Opposite(m, taker)[key] ELSE <<>>

\* Lines 261 / 285
trade_quantity(m, taker, maker) ==
    Min(m.orders[taker].remaining_quantity, m.orders[maker].remaining_quantity)

\* ------------------------------------------------------------- submit_order
\* Lines 349-369: the liquidity scan of a fok order over the opposite side,
\* best price first.  keys is the part of the side not yet visited.
RECURSIVE fok_scan(_, _, _, _, _)
fok_scan(os, levels, keys, o, available) ==
    IF keys = {} THEN FALSE
    ELSE LET price == CHOOSE k \in keys : \A j \in keys : k <= j
             stop == IF o.side = "buy" THEN o.price < price
                     ELSE o.price > 0 - price
             sum == available + SumRemaining(os, levels[price])
         IN  IF stop THEN FALSE
             ELSE IF sum >= o.quantity THEN TRUE
             ELSE fok_scan(os, levels, keys \ {price}, o, sum)

can_fill(m, id) ==
    fok_scan(m.orders, Opposite(m, id), DOMAIN Opposite(m, id), m.orders[id], 0)

\* Line 300: the only validation of submit_order
Rejected(sub) ==
    sub.order_type \in {"limit", "ioc", "fok"} /\ sub.price = None

\* Lines 304-311: Order(...)
NewOrder(id, sub) ==
    [order_id |-> id, symbol |-> sub.symbol, order_type |-> sub.order_type,
     side |-> sub.side, quantity |-> sub.quantity, price |-> sub.price,
     remaining_quantity |-> sub.quantity, status |-> "open"]

\* Lines 326 / 333 / 339: if order.remaining_quantity > 0, once match_order
\* has returned
HasResidual(m, id) == m.orders[id].remaining_quantity > 0

\* The residual of a market order given the status of that of an ioc order.
market_residual_cancelled(m, id) ==
    IF HasResidual(m, id) THEN [m EXCEPT !.orders[id].status = "cancelled"] ELSE m

\* Lines 326-327
market_residual(m, id) ==
    IF HasResidual(m, id)
    THEN [m EXCEPT !.orders[id].status =
             IF m.trades # <<>> THEN "partially_filled" ELSE "cancelled"]
    ELSE m

\* The residual of an ioc order put into the book as that of a limit order.
ioc_residual_rests(m, id) ==
    IF HasResidual(m, id) THEN add_order_to_book(m, id) ELSE m

\* Lines 339-340
ioc_residual(m, id) ==
    IF HasResidual(m, id) THEN [m EXCEPT !.orders[id].status = "cancelled"] ELSE m

\* Lines 333-334
limit_residual(m, id) ==
    IF HasResidual(m, id) THEN add_order_to_book(m, id) ELSE m

\* Lines 381-387: the summary returned to the caller; kind "ok" is the normal
\* response, "invalid" the HTTP 400 of line 455, "error" the HTTP 500 of
\* line 458 (order_id then names the Order object the submit had created).
Summary(m, id) ==
    [kind |-> "ok", order_id |-> id, status |-> m.orders[id].status,
     filled_quantity |-> m.orders[id].quantity - m.orders[id].remaining_quantity,
     remaining_quantity |-> m.orders[id].remaining_quantity,
     trades |-> m.trades]

Failure(kind, id) ==
    [kind |-> kind, order_id |-> id, status |-> Absent, filled_quantity |-> 0,
     remaining_quantity |-> 0, trades |-> <<>>]

\* The Order objects the engine references: those in a level of a book and
\* those indexed by active_orders.
Resting(books) ==
    UNION {UNION {{books[s][side][k][i] : i \in 1 .. Len(books[s][side][k])} :
                     k \in DOMAIN books[s][side]} :
              s \in DOMAIN books, side \in {"bids", "asks"}}

Restrict(d, keep) == [k \in DOMAIN d \cap keep |-> d[k]]

\* No read was served in the last step.
NoReply == [kind |-> "none"]

\* The websockets on a list of connections.
OnList(list) == {list[i] : i \in 1 .. Len(list)}

\* No level: what key holds while match_order is not inside a level.
NoKey == 0

\* A task that runs no submit_order.  Of a running one: pc is the await it
\* is suspended in; id its order; trades, key, best the locals of
\* match_order; trade and seq the Trade of execute_trade and its number; chan,
\* i, ws, disconnected the locals of the broadcast it is in, attempted the
\* websockets that broadcast has sent to and targets those on its list when it
\* began; before the book as the submit found it.
Idle ==
    [pc |-> "idle", id |-> 0, trades |-> <<>>, key |-> NoKey, best |-> 0,
     trade |-> NoTrade, seq |-> 0, chan |-> Absent, i |-> 0, ws |-> 0,
     disconnected |-> <<>>, attempted |-> {}, targets |-> {}, before |-> <<>>]

\* ------------------------------------------------------------------- reads
\* list(d.keys()) of a SortedDict: the keys in ascending order.
RECURSIVE SortedKeys(_)
SortedKeys(d) ==
    IF DOMAIN d = {} THEN <<>>
    ELSE <<FirstKey(d)>> \o SortedKeys(DictDel(d, FirstKey(d)))

\* s[:depth] of a Python list.
Slice(s, depth) ==
    SubSeq(s, 1, IF depth >= 0 THEN Min(depth, Len(s))
                 ELSE IF Len(s) + depth > 0 THEN Len(s) + depth ELSE 0)

\* Lines 179, 185: the price reported for a key of the bids and of the asks.
BidPrice(key) == 0 - key

AskPrice(key) == key

\* Lines 176-180 and 182-186: the first depth levels of one side, each as
\* [price, total remaining quantity].
bid_levels(os, bids, depth) ==
    [i \in 1 .. Len(Slice(SortedKeys(bids), depth)) |->
        <<BidPrice(SortedKeys(bids)[i]), SumRemaining(os, bids[SortedKeys(bids)[i]])>>]

ask_levels(os, asks, depth) ==
    [i \in 1 .. Len(Slice(SortedKeys(asks), depth)) |->
        <<AskPrice(SortedKeys(asks)[i]), SumRemaining(os, asks[SortedKeys(asks)[i]])>>]

\* MatchingEngine.get_order_book_snapshot, on the books ensure_order_book
\* has left.
get_order_book_snapshot(books, os, symbol, depth) ==
    [kind |-> "snapshot", symbol |-> symbol, depth |-> depth,
     bids |-> bid_levels(os, books[symbol].bids, depth),
     asks |-> ask_levels(os, books[symbol].asks, depth)]

\* MatchingEngine.get_bbo, on the books ensure_order_book has left.
get_bbo(books, os, symbol) ==
    [kind |-> "bbo", symbol |-> symbol,
     best_bid |-> IF DOMAIN books[symbol].bids = {} THEN None
                  ELSE BestBid(books[symbol]),
     best_bid_quantity |->
         IF DOMAIN books[symbol].bids = {} THEN None
         ELSE SumRemaining(os, books[symbol].bids[FirstKey(books[symbol].bids)]),
     best_ask |-> IF DOMAIN books[symbol].asks = {} THEN None
                  ELSE BestAsk(books[symbol]),
     best_ask_quantity |->
         IF DOMAIN books[symbol].asks = {} THEN None
         ELSE SumRemaining(os, books[symbol].asks[FirstKey(books[symbol].asks)])]

\* A read answers from the book as it is and changes no order and no
\* journal; the response of the last POST is no longer the last response.
read_only ==
    /\ result' = Failure("none", 0)
    /\ UNCHANGED <<active_orders, orders, db_orders, db_trades, next_id>>
    /\ UNCHANGED avars

\* GET /api/orderbook/{symbol}?depth=
get_order_book(symbol, depth) ==
    /\ order_books' = ensure_order_book(order_books, symbol)
    /\ reply' = get_order_book_snapshot(order_books', orders, symbol, depth)
    /\ read_only

\* GET /api/bbo/{symbol}
get_bbo_endpoint(symbol) ==
    /\ order_books' = ensure_order_book(order_books, symbol)
    /\ reply' = get_bbo(order_books', orders, symbol)
    /\ read_only

\* ------------------------------------------- submit_order from await to await
\* The awaits submit_order can be suspended in, and the ways it ends: it
\* returns its summary, or raises the ValueError the handler turns into HTTP
\* 400, or another exception the handler turns into HTTP 500.
Awaits == {"insert", "db_trade", "db_maker", "db_taker", "send"}
Ended == {"returned", "value_error", "error"}

\* The state task t runs on when the event loop resumes it: the engine's
\* objects as they are now and the task's own locals (ret is the Trade of
\* the execute_trade it is in).
Work(t) ==
    [order_books |-> order_books, active_orders |-> active_orders,
     orders |-> orders, db_orders |-> db_orders, db_trades |-> db_trades,
     trades |-> tasks[t].trades, ret |-> tasks[t].trade,
     pc |-> tasks[t].pc, id |-> tasks[t].id, key |-> tasks[t].key,
     best |-> tasks[t].best, seq |-> tasks[t].seq, chan |-> tasks[t].chan,
     i |-> tasks[t].i, ws |-> tasks[t].ws,
     disconnected |-> tasks[t].disconnected, attempted |-> tasks[t].attempted,
     targets |-> tasks[t].targets,
     before |-> tasks[t].before,
     conns |-> conns, application_state |-> application_state,
     produced |-> produced]

\* The locals a task keeps while it is suspended.
TaskOf(x) ==
    [pc |-> x.pc, id |-> x.id, trades |-> x.trades, key |-> x.key,
     best |-> x.best, trade |-> x.ret, seq |-> x.seq, chan |-> x.chan,
     i |-> x.i, ws |-> x.ws, disconnected |-> x.disconnected,
     attempted |-> x.attempted, targets |-> x.targets, before |-> x.before]

\* Lines 244-245 / 268-269: match_order is entered.
begin_match(x) ==
    [x EXCEPT !.order_books = ensure_order_book(@, x.orders[x.id].symbol),
              !.trades = <<>>, !.key = NoKey, !.pc = "match"]

\* Lines 371-375: a fok order is matched if the scan found enough, else
\* cancelled.
fok_step(x) ==
    IF can_fill(x, x.id) THEN begin_match(x)
    ELSE [x EXCEPT !.orders[x.id].status = "cancelled",
                   !.chan = "orderbook", !.pc = "broadcast"]

\* Lines 320-375 up to the first await: the dispatch on the order type.
process_step(x) ==
    IF x.orders[x.id].order_type = "fok"
    THEN fok_step([x EXCEPT !.order_books =
                       ensure_order_book(@, x.orders[x.id].symbol)])
    ELSE begin_match(x)

\* Lines 194-217: execute_trade up to its first await.
start_trade(x, maker) ==
    [update_taker_status(
         update_maker_status(
             update_quantities(x, maker, x.id, trade_quantity(x, x.id, maker)),
             maker),
         x.id)
     EXCEPT !.ret = NewTrade(x, maker, x.id, trade_quantity(x, x.id, maker), x.best),
            !.seq = x.produced + 1,
            !.produced = @ + 1,
            !.pc = "db_trade"]

\* Lines 248-265 / 272-289: the loops of match_order up to the next trade.
\* Inside a level (key set) the inner loop goes on while the taker has a
\* remaining quantity and the level has an order; else the outer loop goes
\* to the best level unless the side is empty or the price test stops it.
match_step(x) ==
    IF /\ x.orders[x.id].remaining_quantity > 0
       /\ x.key # NoKey
       /\ LevelAt(x, x.id, x.key) # <<>>
    THEN start_trade(x, Maker(LevelAt(x, x.id, x.key)))
    ELSE IF /\ x.orders[x.id].remaining_quantity > 0
            /\ DOMAIN Opposite(x, x.id) # {}
            /\ ~PriceStops(x.orders[x.id],
                           BestPrice(x.orders[x.id], FirstKey(Opposite(x, x.id))))
    THEN [x EXCEPT !.key = FirstKey(Opposite(x, x.id)),
                   !.best = BestPrice(x.orders[x.id], FirstKey(Opposite(x, x.id)))]
    ELSE [x EXCEPT !.key = NoKey, !.best = 0, !.pc = "residual"]

\* Lines 326-327 / 333-334 / 339-340: the residual of the order type.
residual_of(x) ==
    CASE x.orders[x.id].order_type = "market" -> market_residual(x, x.id)
      [] x.orders[x.id].order_type = "limit"  -> limit_residual(x, x.id)
      [] x.orders[x.id].order_type = "ioc"    -> ioc_residual(x, x.id)
      [] x.orders[x.id].order_type = "fok"    -> x

\* Lines 378: the broadcasts follow the residual.
residual_step(x) ==
    [residual_of(x) EXCEPT !.chan = "orderbook", !.pc = "broadcast"]

\* Lines 391-395 / 407-410 / 422-426: the message is built (a snapshot and a
\* BBO are read through ensure_order_book) and disconnected = [].
broadcast_step(x) ==
    [x EXCEPT !.order_books = IF x.chan = "trades" THEN @
                              ELSE ensure_order_book(@, x.orders[x.id].symbol),
              !.disconnected = <<>>, !.attempted = {},
              !.targets = OnList(x.conns[x.chan]), !.i = 0,
              !.pc = "next_ws"]

\* Lines 396-400 / 411-415 / 427-431: for ws in self.<channel>_connections,
\* the list iterator taking the element at its index of the list as it is
\* now, and await ws.send_json.  On a websocket whose state is DISCONNECTED
\* send_json raises before it awaits anything: the websocket goes on the
\* disconnected list and the loop goes on without a suspension.
next_ws_step(x) ==
    IF x.i >= Len(x.conns[x.chan])
    THEN [x EXCEPT !.i = 0, !.ws = 0, !.pc = "remove"]
    ELSE IF x.application_state[x.conns[x.chan][x.i + 1]] = "DISCONNECTED"
    THEN [x EXCEPT !.i = @ + 1, !.ws = x.conns[x.chan][x.i + 1],
                   !.attempted = @ \cup {x.conns[x.chan][x.i + 1]},
                   !.disconnected = Append(@, x.conns[x.chan][x.i + 1])]
    ELSE [x EXCEPT !.i = @ + 1, !.ws = x.conns[x.chan][x.i + 1],
                   !.attempted = @ \cup {x.conns[x.chan][x.i + 1]},
                   !.pc = "send"]

\* What follows a broadcast: execute_trade returns and the trade is appended
\* (lines 238, 265 / 289); broadcast_bbo follows broadcast_order_book (line
\* 379); the summary is returned (lines 381-387).
after_broadcast(x) ==
    CASE x.chan = "trades" ->
             [x EXCEPT !.trades = Append(@, x.ret), !.ret = NoTrade, !.seq = 0,
                       !.attempted = {}, !.targets = {}, !.chan = Absent,
                       !.pc = "match"]
      [] x.chan = "orderbook" -> [x EXCEPT !.chan = "bbo", !.pc = "broadcast"]
      [] x.chan = "bbo" ->
             [x EXCEPT !.attempted = {}, !.targets = {}, !.chan = Absent,
                       !.pc = "returned"]

\* Lines 402-403 / 417-418 / 433-434: for ws in disconnected:
\* self.<channel>_connections.remove(ws), which raises ValueError for a
\* websocket that is no longer in the list.
remove_step(x) ==
    IF x.disconnected = <<>> THEN after_broadcast(x)
    ELSE IF ~InSeq(x.conns[x.chan], Head(x.disconnected))
    THEN [x EXCEPT !.pc = "value_error"]
    ELSE [x EXCEPT !.conns[x.chan] = SeqRemove(@, Head(x.disconnected)),
                   !.disconnected = Tail(@)]

\* The code between two awaits, one piece at a time.
sync_step(x) ==
    CASE x.pc = "process"   -> process_step(x)
      [] x.pc = "match"     -> match_step(x)
      [] x.pc = "residual"  -> residual_step(x)
      [] x.pc = "broadcast" -> broadcast_step(x)
      [] x.pc = "next_ws"   -> next_ws_step(x)
      [] x.pc = "remove"    -> remove_step(x)

\* A resumed task runs until its next await or until submit_order ends.
\* Each piece is evaluated once, on the state the piece before it left.
RECURSIVE Run(_)
Run(x) ==
    IF x.pc \in Awaits \cup Ended THEN x
    ELSE CHOOSE r \in {Run(y) : y \in {sync_step(x)}} : TRUE

\* Where a task goes on after an awaited journal write, unless it raised.
after_write(x, pc) ==
    IF x.pc = "error" THEN x ELSE [x EXCEPT !.pc = pc]

\* Line 316
insert_done(x, ok) ==
    after_write(db_orders_insert_one(x, x.id, ok), "process")

\* Line 222
db_trade_done(x, ok) ==
    after_write(db_trades_insert_one(x, x.ret, ok), "db_maker")

\* Lines 225-232, the maker and then the taker
db_maker_done(x, ok) ==
    after_write(db_orders_update_one(x, x.ret.maker_order_id, ok), "db_taker")

\* Line 235: broadcast_trade follows the last journal write.
db_taker_done(x, ok) ==
    [after_write(db_orders_update_one(x, x.ret.taker_order_id, ok), "broadcast")
     EXCEPT !.chan = "trades"]

\* How an awaited ws.send_json ends: the message is sent; the connection
\* is lost (an OSError of the server, which leaves the websocket in the state
\* DISCONNECTED); or the send raises another exception.
SendOutcomes == {"sent", "os_error", "error"}

\* Lines 397-400 / 412-415 / 428-431: a send that raises puts the websocket
\* on the disconnected list.
send_done(x, out) ==
    CASE out = "sent" -> [x EXCEPT !.pc = "next_ws"]
      [] out = "os_error" ->
             [x EXCEPT !.application_state[x.ws] = "DISCONNECTED",
                       !.disconnected = Append(@, x.ws), !.pc = "next_ws"]
      [] out = "error" ->
             [x EXCEPT !.disconnected = Append(@, x.ws), !.pc = "next_ws"]

\* Both sides of a symbol's book in full, as a snapshot reports them.
View(books, os, symbol) ==
    [bids |-> bid_levels(os, ensure_order_book(books, symbol)[symbol].bids, MaxOrders),
     asks |-> ask_levels(os, ensure_order_book(books, symbol)[symbol].asks, MaxOrders)]

\* The Order objects a suspended task references: its own order and, inside
\* execute_trade, the maker of the trade.
Held(x) ==
    {x.id} \cup (IF x.ret = NoTrade THEN {} ELSE {x.ret.maker_order_id})

\* The Order objects still referenced when task t is suspended on x, and
\* when its submit has ended on x: the response carries values, no Order.
Alive(x) ==
    Resting(x.order_books) \cup x.active_orders
        \cup (IF x.pc \in Ended THEN {} ELSE Held(x))

\* The response of the handler (lines 451-458) to a submit that has ended.
Response(x) ==
    CASE x.pc = "returned"    -> Summary(x, x.id)
      [] x.pc = "value_error" -> Failure("invalid", x.id)
      [] x.pc = "error"       -> Failure("error", x.id)

\* The lock kept by a submit that ends with an exception.
held_on_error(t, x) == IF x.pc = "returned" THEN 0 ELSE t

\* Line 298: async with self.lock releases the lock however its body ends.
released(t, x) == 0

\* Task t is suspended again, or its submit ends: async with releases the
\* lock and the handler answers.
Suspend(t, x) ==
    IF x.pc \in Ended
    THEN /\ tasks' = [tasks EXCEPT ![t] = Idle]
         /\ lock' = released(t, x)
         /\ result' = Response(x)
    ELSE /\ tasks' = [tasks EXCEPT ![t] = TaskOf(x)]
         /\ UNCHANGED <<lock, result>>

\* The Order objects a task inside submit_order references.
HeldBy(u) ==
    IF tasks[u].pc \in {"idle", "lock"} THEN {}
    ELSE {tasks[u].id} \cup
         (IF tasks[u].trade = NoTrade THEN {} ELSE {tasks[u].trade.maker_order_id})

\* What a resumed task leaves behind: the book, the journal and the Order
\* objects something still references.  The response of a read is the last
\* response only until a task runs again.
Commit(t, x) ==
    /\ order_books' = x.order_books
    /\ active_orders' = x.active_orders
    /\ orders' = Restrict(x.orders,
                          Alive(x) \cup UNION {HeldBy(u) : u \in Tasks \ {t}})
    /\ db_orders' = x.db_orders
    /\ db_trades' = x.db_trades
    /\ conns' = x.conns
    /\ application_state' = x.application_state
    /\ produced' = x.produced
    /\ reply' = NoReply
    /\ Suspend(t, x)

\* Task t, resumed on y, runs to its next await or to its end.  It creates
\* no Order and is no websocket endpoint.
Resume(t, y) ==
    /\ UNCHANGED <<next_id, sock>>
    /\ \E w \in {y} : \E x \in {Run(w)} : Commit(t, x)

\* Line 298: async with self.lock lets a task in when no task holds the lock.
LockFreeAlways(l) == TRUE
LockFree(l) == l = 0

\* A POST /api/orders arrives: its task calls submit_order and stands at
\* line 298.  No more tasks arrive than orders can still be created.
Arrive(t) ==
    /\ tasks[t].pc = "idle"
    /\ next_id + Cardinality({u \in Tasks : tasks[u].pc = "lock"}) < MaxOrders
    /\ tasks' = [tasks EXCEPT ![t].pc = "lock"]
    /\ UNCHANGED <<order_books, active_orders, orders, db_orders, db_trades,
                   next_id, result, reply, lock, conns, sock, application_state,
                   delivered, produced>>

\* Lines 298-316: the task takes the lock; a submission without its price
\* raises ValueError at once, else the Order is created and the task awaits
\* the insert into db.orders.  The submission of a task is drawn here:
\* nothing reads it while the task waits for the lock.  The response of the
\* request before is the last response no longer.
Acquire(t, sub) ==
    /\ tasks[t].pc = "lock"
    /\ LockFree(lock)
    /\ IF Rejected(sub)
       THEN /\ tasks' = [tasks EXCEPT ![t] = Idle]
            /\ result' = Failure("invalid", 0)
            /\ reply' = NoReply
            /\ UNCHANGED <<orders, db_orders, db_trades, next_id, lock>>
       ELSE /\ next_id < MaxOrders
            /\ next_id' = next_id + 1
            /\ lock' = t
            /\ orders' = DictSet(orders, next_id + 1, NewOrder(next_id + 1, sub))
            /\ UNCHANGED <<db_orders, db_trades>>
            /\ result' = Failure("none", 0)
            /\ reply' = NoReply
            /\ tasks' = [tasks EXCEPT ![t] =
                   [Idle EXCEPT !.pc = "insert", !.id = next_id + 1,
                                !.before = View(order_books, orders, sub.symbol)]]
    /\ UNCHANGED <<order_books, active_orders, conns, sock, application_state,
                   delivered, produced>>

\* await db.orders.insert_one returns or raises.
Insert(t, ok) ==
    /\ tasks[t].pc = "insert"
    /\ Resume(t, insert_done(Work(t), ok))
    /\ UNCHANGED delivered

\* await db.trades.insert_one returns or raises.
DbTrade(t, ok) ==
    /\ tasks[t].pc = "db_trade"
    /\ Resume(t, db_trade_done(Work(t), ok))
    /\ UNCHANGED delivered

\* await db.orders.update_one for the maker returns or raises.
DbMaker(t, ok) ==
    /\ tasks[t].pc = "db_maker"
    /\ Resume(t, db_maker_done(Work(t), ok))
    /\ UNCHANGED delivered

\* await db.orders.update_one for the taker returns or raises.
DbTaker(t, ok) ==
    /\ tasks[t].pc = "db_taker"
    /\ Resume(t, db_taker_done(Work(t), ok))
    /\ UNCHANGED delivered

\* await ws.send_json returns, the message delivered, or raises.
Send(t, out) ==
    /\ tasks[t].pc = "send"
    /\ delivered' = IF out = "sent" /\ tasks[t].chan = "trades"
                    THEN [delivered EXCEPT ![tasks[t].ws] = tasks[t].seq]
                    ELSE delivered
    /\ Resume(t, send_done(Work(t), out))

\* A websocket no endpoint has been called for, and one whose endpoint has
\* ended.
NoEndpoint == [pc |-> "new", chan |-> Absent]
EndpointEnded == [pc |-> "closed", chan |-> Absent]

\* Lines 510-512 / 525-527 / 540-542: a client connects to the endpoint of
\* channel c, which awaits websocket.accept(): the state of the websocket is
\* CONNECTED from the moment the accept message is handed to the server,
\* while the websocket is on no list yet.
Connect(s, c) ==
    /\ sock[s] = NoEndpoint
    /\ sock' = [sock EXCEPT ![s] = [pc |-> "accept", chan |-> c]]
    /\ application_state' = [application_state EXCEPT ![s] = "CONNECTED"]
    /\ UNCHANGED <<order_books, active_orders, orders, db_orders, db_trades,
                   next_id, result, reply, tasks, lock, conns, delivered,
                   produced>>

\* Lines 512-519 / 527-534 / 542-549: await websocket.accept() returns, the
\* websocket is appended to the list of its endpoint and the endpoint awaits
\* receive_text; or accept raises, outside the try of the endpoint, which
\* ends with the websocket on no list.
Accept(s, ok) ==
    /\ sock[s].pc = "accept"
    /\ sock' = [sock EXCEPT ![s] = IF ok THEN [@ EXCEPT !.pc = "receive"]
                                    ELSE EndpointEnded]
    /\ conns' = IF ok THEN [conns EXCEPT ![sock[s].chan] = Append(@, s)]
                ELSE conns
    /\ UNCHANGED <<order_books, active_orders, orders, db_orders, db_trades,
                   next_id, result, reply, tasks, lock, application_state,
                   delivered, produced>>

\* The frames a client sends to an endpoint waiting in receive_text.
Frames == {"text", "bytes"}

\* Lines 516-519 / 531-534 / 546-549: a frame arrives at the endpoint in its
\* loop around await websocket.receive_text().  A text frame is returned and
\* the loop calls receive_text again, which raises RuntimeError at once for
\* a websocket whose state is no longer CONNECTED; a binary frame has no
\* text and receive_text raises KeyError.  Neither is a WebSocketDisconnect:
\* the exception ends the endpoint and the websocket stays on its list.
Receive(s, frame) ==
    /\ sock[s].pc = "receive"
    /\ sock' = [sock EXCEPT ![s] =
                   IF frame = "text" /\ application_state[s] = "CONNECTED"
                   THEN @ ELSE EndpointEnded]
    /\ UNCHANGED <<order_books, active_orders, orders, db_orders, db_trades,
                   next_id, result, reply, tasks, lock, conns, application_state,
                   delivered, produced>>

\* Lines 519-521 / 534-536 / 549-551: receive_text raises WebSocketDisconnect
\* and the endpoint removes its websocket from the list; when a broadcast
\* has removed it already, the ValueError ends the endpoint's own task.
Disconnect(s) ==
    /\ sock[s].pc = "receive"
    /\ sock' = [sock EXCEPT ![s] = EndpointEnded]
    /\ conns' = [conns EXCEPT ![sock[s].chan] = SeqRemove(@, s)]
    /\ UNCHANGED <<order_books, active_orders, orders, db_orders, db_trades,
                   next_id, result, reply, tasks, lock, application_state,
                   delivered, produced>>

\* ------------------------------------------------------------ specification
Init ==
    /\ order_books = EmptyDict
    /\ active_orders = {}
    /\ orders = EmptyDict
    /\ db_orders = EmptyDict
    /\ db_trades = <<>>
    /\ next_id = 0
    /\ result = Failure("none", 0)
    /\ reply = NoReply
    /\ tasks = [t \in Tasks |-> Idle]
    /\ lock = 0
    /\ conns = [c \in Channels |-> <<>>]
    /\ sock = [s \in Sockets |-> NoEndpoint]
    /\ application_state = [s \in Sockets |-> "CONNECTING"]
    /\ delivered = [s \in Sockets |-> 0]
    /\ produced = 0

\* The tasks of POST /api/orders interleaved by the event loop, every journal
\* write returning or raising.  No GET is served and no websocket connects,
\* so every broadcast finds its list empty.
Next ==
    \/ \E t \in Tasks : Arrive(t)
    \/ \E t \in Tasks, sub \in OrderSubmission : Acquire(t, sub)
    \/ \E t \in Tasks, ok \in BOOLEAN : Insert(t, ok)
    \/ \E t \in Tasks, ok \in BOOLEAN : DbTrade(t, ok)
    \/ \E t \in Tasks, ok \in BOOLEAN : DbMaker(t, ok)
    \/ \E t \in Tasks, ok \in BOOLEAN : DbTaker(t, ok)

Spec == Init /\ [][Next]_vars

\* The order flow that fills the book under the reads: limit and ioc orders
\* of a positive quantity carrying a price.
BookSubmissions ==
    {sub \in OrderSubmission :
        /\ sub.order_type \in {"limit", "ioc"}
        /\ sub.price # None
        /\ sub.quantity > 0}

\* The same tasks with GET /api/orderbook and GET /api/bbo served in between,
\* also while a submit is suspended: the reads take no lock.
NextAsync ==
    \/ \E t \in Tasks : Arrive(t)
    \/ \E t \in Tasks, sub \in BookSubmissions : Acquire(t, sub)
    \/ \E t \in Tasks, ok \in BOOLEAN : Insert(t, ok)
    \/ \E t \in Tasks, ok \in BOOLEAN : DbTrade(t, ok)
    \/ \E t \in Tasks, ok \in BOOLEAN : DbMaker(t, ok)
    \/ \E t \in Tasks, ok \in BOOLEAN : DbTaker(t, ok)
    \/ \E symbol \in Symbols, depth \in Depths : get_order_book(symbol, depth)
    \/ \E symbol \in Symbols : get_bbo_endpoint(symbol)

SpecAsync == Init /\ [][NextAsync]_vars

\* The order flow that feeds the broadcasts when websockets come and go:
\* limit orders of a positive quantity at one price.
PublishSubmissions ==
    {sub \in OrderSubmission :
        sub.order_type = "limit" /\ sub.price = 1 /\ sub.quantity > 0}

\* The tasks of submit_order interleaved with the websocket endpoints, every
\* send of a broadcast and every accept of an endpoint returning or raising,
\* every endpoint receiving frames or the disconnect of its client.
NextPublish ==
    \/ \E t \in Tasks : Arrive(t)
    \/ \E t \in Tasks, sub \in PublishSubmissions : Acquire(t, sub)
    \/ \E t \in Tasks, ok \in BOOLEAN : Insert(t, ok)
    \/ \E t \in Tasks, ok \in BOOLEAN : DbTrade(t, ok)
    \/ \E t \in Tasks, ok \in BOOLEAN : DbMaker(t, ok)
    \/ \E t \in Tasks, ok \in BOOLEAN : DbTaker(t, ok)
    \/ \E t \in Tasks, out \in SendOutcomes : Send(t, out)
    \/ \E s \in Sockets, c \in Channels : Connect(s, c)
    \/ \E s \in Sockets, ok \in BOOLEAN : Accept(s, ok)
    \/ \E s \in Sockets, frame \in Frames : Receive(s, frame)
    \/ \E s \in Sockets : Disconnect(s)

SpecPublish == Init /\ [][NextPublish]_vars

\* The order flow under which the submits are followed to their end: buys
\* of every quantity and sells of one unit, at one price, so that a taker
\* meets no maker, one maker, or two makers in turn, and a maker is filled
\* in part or in full.
FairSubmissions ==
    {sub \in PublishSubmissions : sub.side = "buy" \/ sub.quantity = 1}

\* The steps of NextPublish under that order flow.
NextFair ==
    \/ \E t \in Tasks : Arrive(t)
    \/ \E t \in Tasks, sub \in FairSubmissions : Acquire(t, sub)
    \/ \E t \in Tasks, ok \in BOOLEAN : Insert(t, ok)
    \/ \E t \in Tasks, ok \in BOOLEAN : DbTrade(t, ok)
    \/ \E t \in Tasks, ok \in BOOLEAN : DbMaker(t, ok)
    \/ \E t \in Tasks, ok \in BOOLEAN : DbTaker(t, ok)
    \/ \E t \in Tasks, out \in SendOutcomes : Send(t, out)
    \/ \E s \in Sockets, c \in Channels : Connect(s, c)
    \/ \E s \in Sockets, ok \in BOOLEAN : Accept(s, ok)
    \/ \E s \in Sockets, frame \in Frames : Receive(s, frame)
    \/ \E s \in Sockets : Disconnect(s)

\* Task t is resumed from the await it is suspended in, which returns or
\* raises.
Resumed(t) ==
    \/ \E ok \in BOOLEAN : Insert(t, ok)
    \/ \E ok \in BOOLEAN : DbTrade(t, ok)
    \/ \E ok \in BOOLEAN : DbMaker(t, ok)
    \/ \E ok \in BOOLEAN : DbTaker(t, ok)
    \/ \E out \in SendOutcomes : Send(t, out)

\* The event loop resumes a task whose await can return or raise, and
\* asyncio.Lock wakes its waiters in turn, so a task waiting at a lock that
\* stays free is let in.  Only weak fairness is asked of the lock, which is
\* less than the turn asyncio.Lock gives its waiters, and nothing is asked
\* of the websocket endpoints: a client may never connect and never leave.
Fairness ==
    \A t \in Tasks :
        /\ WF_vars(\E sub \in FairSubmissions : Acquire(t, sub))
        /\ WF_vars(Resumed(t))

SpecFair == Init /\ [][NextFair]_vars /\ Fairness

\* ------------------------------------------------------- what the claims use
RECURSIVE SumQty(_)
SumQty(ts) == IF ts = <<>> THEN 0 ELSE Head(ts).quantity + SumQty(Tail(ts))

TradesOf(ts, id) ==
    SelectSeq(ts, LAMBDA t : t.maker_order_id = id \/ t.taker_order_id = id)

\* The document of the order the last submit created.  db.orders holds it
\* from line 316 on; its type, side, price and quantity are those of the
\* submission in every later write.
Last == db_orders[result.order_id]

\* The submit of task t ends in this step, and the order it ends on.
Ends(t) == tasks[t].pc \in Awaits /\ tasks'[t].pc = "idle"
Own(t) == orders[tasks[t].id]

OwnSide(o) == IF o.side = "buy" THEN "bids" ELSE "asks"
OwnKey(o) == IF o.side = "buy" THEN 0 - o.price ELSE o.price

\* Order id is the last entry of the level of its own price on its own side.
AtTail(books, o) ==
    /\ o.symbol \in DOMAIN books
    /\ OwnKey(o) \in DOMAIN books[o.symbol][OwnSide(o)]
    /\ LET level == books[o.symbol][OwnSide(o)][OwnKey(o)]
       IN  level # <<>> /\ level[Len(level)] = o.order_id

\* ------------------------------------------------------------------- claims

\* C1: whenever both sides of a symbol's book are non-empty, the best bid is
\* strictly below the best ask.
NoCrossedBook ==
    \A s \in DOMAIN order_books :
        (DOMAIN order_books[s].bids # {} /\ DOMAIN order_books[s].asks # {})
            => BestBid(order_books[s]) < BestAsk(order_books[s])

\* A limit order traded, rested its residual, and both sides are populated.
NoCrossedBookWitness ==
    /\ result.kind = "ok"
    /\ result.trades # <<>>
    /\ result.order_id \in active_orders
    /\ \E s \in DOMAIN order_books :
          DOMAIN order_books[s].bids # {} /\ DOMAIN order_books[s].asks # {}

\* C2: between two submits, for every order, quantity minus
\* remaining_quantity equals the sum of the quantities of the recorded trades
\* in which it is maker or taker.
Conservation ==
    lock = 0 =>
        \A id \in DOMAIN orders :
            orders[id].quantity - orders[id].remaining_quantity
                = SumQty(TradesOf(db_trades, id))

\* Of two orders resting in one level, the later one receives no fill in a
\* step unless the earlier one is fully filled by then.
FifoStep ==
    \A s \in DOMAIN order_books : \A side \in {"bids", "asks"} :
        \A k \in DOMAIN order_books[s][side] :
            LET level == order_books[s][side][k]
            IN  \A i \in 1 .. Len(level) : \A j \in 1 .. Len(level) :
                    i < j =>
                        \/ /\ level[j] \in DOMAIN orders'
                           /\ orders'[level[j]].remaining_quantity
                                 = orders[level[j]].remaining_quantity
                        \/ /\ level[i] \in DOMAIN orders'
                           /\ orders'[level[i]].remaining_quantity = 0

\* A trade that begins in a step is against the head of the best opposite
\* level of the book as the step found it.
HeadStep ==
    \A t \in Tasks :
        (tasks'[t].pc = "db_trade" /\ tasks'[t].seq # tasks[t].seq) =>
            LET o == Own(t)
                opposite == IF o.side = "buy" THEN order_books[o.symbol].asks
                            ELSE order_books[o.symbol].bids
            IN  tasks'[t].trade.maker_order_id = Head(opposite[FirstKey(opposite)])

\* C3: price-time priority holds of every step: no fill for a later order of a
\* level before the earlier one is filled, and the head of the best level
\* trades first.
PriceTimePriority == [][FifoStep /\ HeadStep]_vars

\* One submit filled the head of a level and went on to the order behind it.
PriceTimePriorityWitness ==
    /\ result.kind = "ok"
    /\ Len(result.trades) >= 2
    /\ result.trades[1].price = result.trades[2].price
    /\ result.trades[1].maker_order_id < result.trades[2].maker_order_id
    /\ db_orders[result.trades[1].maker_order_id].remaining_quantity = 0

\* C4: every trade is priced at the limit price its maker rests at, and its
\* maker and taker are different orders: the trade a task is executing, the
\* trades of a summary and the trades of the journal.
MakerPriceRule ==
    /\ \A t \in Tasks :
          tasks[t].trade # NoTrade =>
              /\ tasks[t].trade.price = orders[tasks[t].trade.maker_order_id].price
              /\ tasks[t].trade.maker_order_id # tasks[t].trade.taker_order_id
    /\ \A i \in 1 .. Len(result.trades) :
          /\ result.trades[i].price = db_orders[result.trades[i].maker_order_id].price
          /\ result.trades[i].maker_order_id # result.trades[i].taker_order_id
    /\ \A i \in 1 .. Len(db_trades) :
          /\ db_trades[i].price = db_orders[db_trades[i].maker_order_id].price
          /\ db_trades[i].maker_order_id # db_trades[i].taker_order_id

\* A taker that is not a limit order swept two levels, paying each maker's
\* price, one of them different from its own.
MakerPriceRuleWitness ==
    /\ result.kind = "ok"
    /\ Len(result.trades) >= 2
    /\ result.trades[1].price # result.trades[2].price
    /\ Last.order_type # "limit"
    /\ \E i \in 1 .. Len(result.trades) : result.trades[i].price # Last.price

\* C5: a limit, ioc or fok taker never trades at a price worse than its own.
PriceBound ==
    (result.kind = "ok" /\ Last.order_type \in {"limit", "ioc", "fok"}) =>
        \A i \in 1 .. Len(result.trades) :
            IF Last.side = "buy" THEN result.trades[i].price <= Last.price
            ELSE result.trades[i].price >= Last.price

\* A fok submit that ends has either traded its whole quantity and is filled,
\* or has made no trade, is cancelled and leaves the symbol's book as it found
\* it; one that ends in an error has not executed in part.
FokStep ==
    \A t \in Tasks :
        (Ends(t) /\ Own(t).order_type = "fok") =>
            \/ /\ result'.kind = "ok"
               /\ SumQty(result'.trades) = Own(t).quantity
               /\ result'.status = "filled"
            \/ /\ result'.kind = "ok"
               /\ result'.trades = <<>>
               /\ result'.status = "cancelled"
               /\ View(order_books', orders', Own(t).symbol) = tasks[t].before
            \/ /\ result'.kind = "error"
               /\ Own(t).remaining_quantity = Own(t).quantity
               /\ View(order_books', orders', Own(t).symbol) = tasks[t].before

\* C6: every fok submit is all or nothing.
FokAtomicity == [][FokStep]_vars

\* C7: an ioc order with a residual is returned partially_filled if it had a
\* fill and cancelled if it had none, and is not in the book.
IocResidual ==
    (result.kind = "ok" /\ Last.order_type = "ioc" /\ result.remaining_quantity > 0) =>
        /\ result.status = IF result.trades # <<>> THEN "partially_filled"
                           ELSE "cancelled"
        /\ result.order_id \notin Resting(order_books) \cup active_orders

\* C8: a market order never rests; with a residual it has emptied the
\* opposite side whatever the prices, and it is returned cancelled if it had
\* no trade and partially_filled if it had one.
MarketResidual ==
    (result.kind = "ok" /\ Last.order_type = "market") =>
        /\ result.order_id \notin Resting(order_books) \cup active_orders
        /\ result.remaining_quantity > 0 =>
              /\ result.status = IF result.trades # <<>> THEN "partially_filled"
                                 ELSE "cancelled"
              /\ DOMAIN (IF Last.side = "buy" THEN order_books[Last.symbol].asks
                         ELSE order_books[Last.symbol].bids) = {}

\* A market buy carrying a price traded above that price and kept a residual.
MarketResidualWitness ==
    /\ result.kind = "ok"
    /\ Last.order_type = "market"
    /\ Last.side = "buy"
    /\ Last.price # None
    /\ result.remaining_quantity > 0
    /\ result.status = "partially_filled"
    /\ \E i \in 1 .. Len(result.trades) : result.trades[i].price > Last.price

\* The limit order o found a best opposite price it can trade at in the book
\* seen, a snapshot of full depth, when its submit began.
Crosses(seen, o) ==
    IF o.side = "buy"
    THEN seen.asks # <<>> /\ o.price >= seen.asks[1][1]
    ELSE seen.bids # <<>> /\ o.price <= seen.bids[1][1]

\* A limit submit that returns with a residual has put it at the tail of the
\* level of its own price on its own side, open if it had no fill and
\* partially_filled otherwise; one that did not cross ends with no trade
\* made and its order resting in full.
LimitStep ==
    \A t \in Tasks :
        (Ends(t) /\ Own(t).order_type = "limit") =>
            /\ (result'.kind = "ok" /\ result'.remaining_quantity > 0) =>
                  /\ AtTail(order_books', Own(t))
                  /\ result'.status =
                         IF result'.remaining_quantity = Own(t).quantity THEN "open"
                         ELSE "partially_filled"
            /\ ~Crosses(tasks[t].before, Own(t)) =>
                  /\ AtTail(order_books', Own(t))
                  /\ orders'[tasks[t].id].remaining_quantity = Own(t).quantity

\* C9: every limit submit rests its residual at the tail of its own level, and
\* rests in full when it does not cross.
LimitResidual == [][LimitStep]_vars

\* C10: no order with a non-positive quantity, and no limit, ioc or fok order
\* without a price, is admitted or written to the journal.
Validation ==
    \A id \in DOMAIN orders \cup DOMAIN db_orders :
        LET o == IF id \in DOMAIN orders THEN orders[id] ELSE db_orders[id]
        IN  /\ o.quantity > 0
            /\ o.order_type \in {"limit", "ioc", "fok"} => o.price # None

\* The place of a status on the path open -> partially_filled -> (filled |
\* cancelled).
Rank(status) ==
    CASE status = "open" -> 0
      [] status = "partially_filled" -> 1
      [] OTHER -> 2

\* One step leaves no order behind on the path, changes no order that was
\* filled or cancelled, and leaves every order filled exactly when nothing
\* of it remains.
MonotoneStep ==
    /\ \A id \in DOMAIN orders \cap DOMAIN orders' :
          /\ Rank(orders'[id].status) >= Rank(orders[id].status)
          /\ orders[id].status \in {"filled", "cancelled"} => orders'[id] = orders[id]
    /\ \A id \in DOMAIN orders' :
          orders'[id].status = "filled" <=> orders'[id].remaining_quantity = 0

\* C11: the status of an order only moves along open -> partially_filled ->
\* (filled | cancelled), a filled or cancelled order is never changed again,
\* and an order is filled exactly when its remaining quantity is 0.
MonotoneStatus == [][MonotoneStep]_vars

\* C12: whatever journal write fails, the submit of an admitted order ends
\* with the normal summary, never with an error.
PersistenceNotFatal == result.kind \in {"none", "invalid", "ok"}

\* C13: when a submit returns its summary, the orders journal holds the
\* order with the status and the remaining quantity of the summary.
FinalStateJournaled ==
    result.kind = "ok" =>
        /\ result.order_id \in DOMAIN db_orders
        /\ db_orders[result.order_id].status = result.status
        /\ db_orders[result.order_id].remaining_quantity = result.remaining_quantity

\* The sum of the remaining quantities of a set of orders.
RECURSIVE SumOver(_)
SumOver(ids) ==
    IF ids = {} THEN 0
    ELSE LET id == CHOOSE x \in ids : TRUE
         IN  orders[id].remaining_quantity + SumOver(ids \ {id})

\* The orders resting in the book on one side of a symbol at one price.
RestingAt(symbol, side, price) ==
    {id \in Resting(order_books) :
        /\ orders[id].symbol = symbol
        /\ orders[id].side = side
        /\ orders[id].price = price}

\* The entries of one side of a snapshot are the prices of resting orders of
\* that side with the total remaining quantity at that price.
SideConsistent(levels, symbol, side) ==
    \A i \in 1 .. Len(levels) :
        /\ RestingAt(symbol, side, levels[i][1]) # {}
        /\ levels[i][2] = SumOver(RestingAt(symbol, side, levels[i][1]))

\* C14: a snapshot of depth d lists the bids by strictly descending price and
\* the asks by strictly ascending price, each with the sum of the remaining
\* quantities of the orders resting at that price, the prices as the orders
\* carry them, and at most d entries per side.
SnapshotConsistency ==
    reply.kind = "snapshot" =>
        /\ \A i \in 1 .. Len(reply.bids) - 1 : reply.bids[i][1] > reply.bids[i + 1][1]
        /\ \A i \in 1 .. Len(reply.asks) - 1 : reply.asks[i][1] < reply.asks[i + 1][1]
        /\ SideConsistent(reply.bids, reply.symbol, "buy")
        /\ SideConsistent(reply.asks, reply.symbol, "sell")
        /\ Len(reply.bids) <= reply.depth
        /\ Len(reply.asks) <= reply.depth

\* The tasks inside submit_order: past the lock and not yet returned.
Inside == {t \in Tasks : tasks[t].pc \in Awaits}

\* C17: at most one task is between taking the lock and the end of its
\* submit, and it is the task that holds the lock; every other task is
\* outside or waits at the lock.
SingleWriter ==
    /\ Cardinality(Inside) <= 1
    /\ \A t \in Inside : lock = t

\* One task is suspended in the journal write of a trade while another
\* waits at the lock.
SingleWriterWitness ==
    \E t, u \in Tasks :
        /\ tasks[t].pc = "db_trade"
        /\ tasks[u].pc = "lock"
        /\ lock = t

\* The book of every symbol as a snapshot of full depth reports it.
Views(books, os) == [s \in Symbols |-> View(books, os, s)]

\* Once a submit that has changed the book is suspended, the book is the one
\* the submit leaves behind: no step changes it while that submit is inside.
AtomicStep ==
    \A t \in Inside :
        tasks[t].before # View(order_books, orders, orders[tasks[t].id].symbol) =>
            Views(order_books', orders') = Views(order_books, orders)

\* C18: the book mutations of one submit have no suspension point between
\* them, so that a read sees the book before the submit or the book after it.
AtomicBookMutation == [][AtomicStep]_vars

\* An order resting in the book is a limit order with a remaining quantity,
\* open or partially filled, on its side at the key of its price, and active.
RestsWell(o, side, key) ==
    /\ o.order_type = "limit"
    /\ o.remaining_quantity > 0
    /\ o.status \in {"open", "partially_filled"}
    /\ side = OwnSide(o)
    /\ key = OwnKey(o)
    /\ o.order_id \in active_orders

\* C19: every order in a level of the book is a limit order with a positive
\* remaining quantity and status open or partially_filled, on its own side at
\* the key of its own price, and in active_orders; no market, ioc or fok
\* order is in the book.
RestingOrderInvariant ==
    /\ \A s \in DOMAIN order_books, side \in {"bids", "asks"} :
          \A key \in DOMAIN order_books[s][side] :
              \A i \in 1 .. Len(order_books[s][side][key]) :
                  /\ order_books[s][side][key][i] \in DOMAIN orders
                  /\ orders[order_books[s][side][key][i]].symbol = s
                  /\ RestsWell(orders[order_books[s][side][key][i]], side, key)
    /\ \A id \in DOMAIN orders :
          orders[id].order_type # "limit" => id \notin Resting(order_books)

\* While an ioc taker is suspended in the journal write of its trade, the
\* maker it has partially filled rests in the book.
RestingOrderInvariantWitness ==
    \E t \in Tasks :
        /\ tasks[t].pc = "db_trade"
        /\ orders[tasks[t].id].order_type = "ioc"
        /\ tasks[t].trade.maker_order_id \in Resting(order_books)
        /\ orders[tasks[t].trade.maker_order_id].status = "partially_filled"

\* C20: at every suspension point and after every submit, each level of the
\* book holds at least one order and a positive total remaining quantity.
NoEmptyLevel ==
    \A s \in DOMAIN order_books, side \in {"bids", "asks"} :
        \A key \in DOMAIN order_books[s][side] :
            /\ order_books[s][side][key] # <<>>
            /\ SumRemaining(orders, order_books[s][side][key]) > 0

\* A taker is suspended in the journal write of a trade that filled the
\* maker: the maker has left the book and its level is gone, while another
\* level of that side is still there.
NoEmptyLevelWitness ==
    \E t \in Tasks :
        /\ tasks[t].pc = "db_trade"
        /\ orders[tasks[t].trade.maker_order_id].status = "filled"
        /\ tasks[t].trade.maker_order_id \notin Resting(order_books)
        /\ LET m == orders[tasks[t].trade.maker_order_id]
           IN  /\ OwnKey(m) \notin DOMAIN order_books[m.symbol][OwnSide(m)]
               /\ DOMAIN order_books[m.symbol][OwnSide(m)] # {}

\* Task t resumes from a send and its broadcast ends in this step.
EndsBroadcast(t) ==
    /\ tasks[t].pc = "send"
    /\ tasks'[t] # tasks[t]
    /\ ~(tasks'[t].pc = "send" /\ tasks'[t].chan = tasks[t].chan)

\* The websockets the list iterator of task t has yet to yield.  When the
\* broadcast ends in the step that resumes t, each of them was sent to in
\* that step and raised at once.
AtOnce(t) ==
    {conns[tasks[t].chan][j] : j \in (tasks[t].i + 1) .. Len(conns[tasks[t].chan])}

\* A broadcast that ends has sent to every websocket on its list, leaves
\* none of those whose send failed on the list, and does not end the submit
\* with an error.
BroadcastStep ==
    \A t \in Tasks :
        EndsBroadcast(t) =>
            /\ OnList(conns[tasks[t].chan]) \subseteq tasks[t].attempted \cup AtOnce(t)
            /\ (OnList(tasks[t].disconnected) \cup AtOnce(t))
                   \cap OnList(conns'[tasks[t].chan]) = {}
            /\ ~(result'.kind = "invalid" /\ result'.order_id = tasks[t].id)

\* C15: when the delivery to one subscriber fails, that subscriber is
\* removed from the channel, the delivery is still attempted to every other
\* subscriber, and the submit does not fail.
PublishFailureIsolation == [][BroadcastStep]_vars

\* A websocket is sent a trade produced after the last trade it was sent,
\* and a trade is produced only when the broadcast of the one before it is
\* over.
DeliveryStep ==
    /\ \A s \in Sockets : delivered'[s] # delivered[s] => delivered'[s] > delivered[s]
    /\ Cardinality({t \in Tasks : tasks'[t].seq # 0}) <= 1

\* C16: whatever the interleaving of the submits, every websocket of the
\* trade channel is sent the trades in the order they were produced.
OrderedTradeDelivery == [][DeliveryStep]_vars

\* The second trade is being sent to a websocket that was sent the first.
OrderedTradeDeliveryWitness ==
    \E t \in Tasks :
        /\ tasks[t].pc = "send"
        /\ tasks[t].chan = "trades"
        /\ tasks[t].seq = 2
        /\ delivered[tasks[t].ws] = 1

\* A broadcast that ends, whatever websockets were appended to its list or
\* removed from it while it was suspended in a send, has sent to every
\* websocket that was on the list from its beginning to its end, and does not
\* end the submit with an error.
ChurnStep ==
    \A t \in Tasks :
        EndsBroadcast(t) =>
            /\ (tasks[t].targets \cap OnList(conns[tasks[t].chan]))
                   \subseteq tasks[t].attempted \cup AtOnce(t)
            /\ ~(result'.kind = "invalid" /\ result'.order_id = tasks[t].id)

\* C22: a publish during which a subscriber is removed by its disconnect
\* handler, or a new one is appended, still completes without an error in
\* submit_order and still attempts the delivery to every subscriber that
\* stays subscribed for the whole publish.
PublishToleratesChurn == [][ChurnStep]_vars

\* C21: when every awaited journal write and send returns or raises, no task
\* stays in its submit forever: a task waiting at the lock takes it, a task
\* that has taken the lock ends its submit, with its summary or with an
\* error, and is then off the lock, so that again and again every task is
\* idle while the lock is free of it.
SubmitCompletes ==
    \A t \in Tasks : []<>(tasks[t].pc = "idle" /\ lock # t)

SubmitCompletesWitness ==
    \E t, u \in Tasks :
        /\ lock = t
        /\ tasks[t].pc = "send"
        /\ tasks[t].chan = "trades"
        /\ tasks[t].seq > 0
        /\ tasks[u].pc = "lock"

====
